---- MODULE Spec2Model ----
(***************************************************************************)
(* A model of the two import scripts of nznewspapers:                      *)
(*   - nzn-summarise.js (src/unnamed/part_000): the MARC reconciliation,   *)
(*   - nzn-import-newspapers.js: the tab-separated batch import.           *)
(* Strings whose characters the code inspects (dates, frequencies, place   *)
(* names, column names) are sequences of one-character strings.            *)
(***************************************************************************)
EXTENDS Naturals, Integers, Sequences, FiniteSets, TLC

VARIABLES
    \* ---- isNewDateMoreSpecific called on its own -------------------------
    dpc,            \* "idle" | "returned"
    currentDate,    \* argument currentDate of the last call
    newDate,        \* argument newDate of the last call
    dresult,        \* value returned by the last call
    \* ---- nzn-summarise.js: the MARC reconciliation ----------------------
    pc,             \* "start" | "build" | "built" | "streaming" | "done" | "fatal"
    run,            \* which run of the script this is (1 = first)
    mode,           \* let mode
    store,          \* the per-id newspaper records on disk: id -> record
    buildIdx,       \* number of records the index build loop has handled
    marcNumberToNewspaperId,  \* control number -> id
    placeData,      \* placename -> [placecode, district, region]
    stats,          \* label -> count
    recordCounter,
    serialCounter,
    newspaperCounter,
    input,          \* the MARC file: the entries streamed by the first run
    cursor,         \* number of entries the reader has delivered in this run
    writes,         \* the files written in this run, in order
    fatalMessage,   \* what the run threw, if it threw
    tick,           \* whether the interval timer of readMarcFile is armed
    snapshots,      \* the calls of logStats so far, in order
    \* ---- nzn-import-newspapers.js: the batch import ----------------------
    ipc,            \* "idle" | "loop" | "draining" | "exited"
    files,          \* the per-id JSON files: id -> content
    files0,         \* the files as the import found them
    rows,           \* the rows of newspapers.txt handled so far
    pending,        \* the fs.writeFile calls that have not completed
    exitCode        \* the exit code of the process

dvars == <<dpc, currentDate, newDate, dresult>>

rvars == <<pc, run, mode, store, buildIdx, marcNumberToNewspaperId, placeData,
           stats, recordCounter, serialCounter, newspaperCounter, input,
           cursor, writes, fatalMessage, tick, snapshots>>

ivars == <<ipc, files, files0, rows, pending, exitCode>>

vars == <<dvars, rvars, ivars>>

(***************************************************************************)
(* String helpers (JavaScript String methods on character sequences).      *)
(***************************************************************************)

\* String.prototype.endsWith
EndsWith(s, suffix) ==
    /\ Len(suffix) <= Len(s)
    /\ SubSeq(s, Len(s) - Len(suffix) + 1, Len(s)) = suffix

\* String.prototype.startsWith
StartsWith(s, prefix) ==
    /\ Len(prefix) <= Len(s)
    /\ SubSeq(s, 1, Len(prefix)) = prefix

\* Length of a 008 date field: substring(7, 11) and substring(11, 15).
DateLen == 4

DateChars == {"0", "1", "7", "9", "u"}

\* Every 4-character token over the digits used here and the unknown marker.
DateTokens == [1..DateLen -> DateChars]

Y9999 == <<"9", "9", "9", "9">>
Yuuuu == <<"u", "u", "u", "u">>
Y1uuu == <<"1", "u", "u", "u">>
Y19uu == <<"1", "9", "u", "u">>
Y197u == <<"1", "9", "7", "u">>
Y1970 == <<"1", "9", "7", "0">>
Y1971 == <<"1", "9", "7", "1">>

(***************************************************************************)
(* isNewDateMoreSpecific(currentDate, newDate), part_000 lines 183-215.    *)
(***************************************************************************)

\* Variant: the first guard (current date fully specific) is missing.
isNewDateMoreSpecific_NoGuard(cur, new) ==
    IF new = Y9999 \/ new = Yuuuu THEN FALSE
    ELSE IF cur = Y9999 \/ cur = Yuuuu THEN TRUE
    ELSE IF EndsWith(cur, <<"u", "u", "u">>) THEN TRUE
    ELSE IF EndsWith(cur, <<"u", "u">>) THEN ~EndsWith(new, <<"u", "u", "u">>)
    ELSE IF EndsWith(cur, <<"u">>) THEN ~EndsWith(new, <<"u", "u">>)
    ELSE FALSE

\* Variant: the decade rule rejects every candidate that ends in a marker.
isNewDateMoreSpecific_StrictDecade(cur, new) ==
    IF ~EndsWith(cur, <<"u">>) THEN FALSE
    ELSE IF new = Y9999 \/ new = Yuuuu THEN FALSE
    ELSE IF cur = Y9999 \/ cur = Yuuuu THEN TRUE
    ELSE IF EndsWith(cur, <<"u", "u", "u">>) THEN TRUE
    ELSE IF EndsWith(cur, <<"u", "u">>) THEN ~EndsWith(new, <<"u", "u", "u">>)
    ELSE IF EndsWith(cur, <<"u">>) THEN ~EndsWith(new, <<"u">>)
    ELSE FALSE

\* Variant: the century rule accepts a millennium-masked candidate.
isNewDateMoreSpecific_LooseCentury(cur, new) ==
    IF ~EndsWith(cur, <<"u">>) THEN FALSE
    ELSE IF new = Y9999 \/ new = Yuuuu THEN FALSE
    ELSE IF cur = Y9999 \/ cur = Yuuuu THEN TRUE
    ELSE IF EndsWith(cur, <<"u", "u", "u">>) THEN TRUE
    ELSE IF EndsWith(cur, <<"u", "u">>) THEN TRUE
    ELSE IF EndsWith(cur, <<"u">>) THEN ~EndsWith(new, <<"u", "u">>)
    ELSE FALSE

isNewDateMoreSpecific(cur, new) ==
    \* Trivial case 1 -> Current date is fully specific -> false
    IF ~EndsWith(cur, <<"u">>) THEN FALSE
    \* Trivial case 2 -> New date is not at all specific -> false
    ELSE IF new = Y9999 \/ new = Yuuuu THEN FALSE
    \* Trivial case 3 -> Current date is not at all specific -> true
    ELSE IF cur = Y9999 \/ cur = Yuuuu THEN TRUE
    \* Current date is a millenia
    ELSE IF EndsWith(cur, <<"u", "u", "u">>) THEN TRUE
    \* Current date is a century
    ELSE IF EndsWith(cur, <<"u", "u">>) THEN ~EndsWith(new, <<"u", "u", "u">>)
    \* Current date is a decade
    ELSE IF EndsWith(cur, <<"u">>) THEN ~EndsWith(new, <<"u", "u">>)
    ELSE FALSE

(***************************************************************************)
(* Measures of a date token used to state properties.                      *)
(***************************************************************************)

RECURSIVE TrailingUnknown(_)
\* Number of unknown markers at the end of a token, counted from the right.
TrailingUnknown(d) ==
    IF d = <<>> \/ d[Len(d)] # "u" THEN 0
    ELSE 1 + TrailingUnknown(SubSeq(d, 1, Len(d) - 1))

HasUnknownMarker(d) == \E i \in 1..Len(d) : d[i] = "u"

(***************************************************************************)
(* More string helpers.                                                    *)
(***************************************************************************)

\* The value of a variable that holds null (or undefined) instead of a string.
NullStr == <<"<null>">>

\* JavaScript truthiness of a string-or-null value.
Truthy(s) == s # NullStr /\ s # <<>>

\* String.prototype.includes
Includes(s, sub) ==
    \E i \in 1..(Len(s) + 1) :
        /\ i + Len(sub) - 1 <= Len(s)
        /\ SubSeq(s, i, i + Len(sub) - 1) = sub

\* String.prototype.indexOf for one character, as a position from 1 (0: none).
IndexOf(s, ch) ==
    IF \E i \in 1..Len(s) : s[i] = ch
    THEN CHOOSE i \in 1..Len(s) : s[i] = ch /\ \A j \in 1..(i - 1) : s[j] # ch
    ELSE 0

\* name.search("N.Z"): the string is a regular expression, so the dot matches
\* any character. A position from 1 (0: no match).
MatchesNZAt(s, i) == i + 2 <= Len(s) /\ s[i] = "N" /\ s[i + 2] = "Z"

SearchNZ(s) ==
    IF \E i \in 1..Len(s) : MatchesNZAt(s, i)
    THEN CHOOSE i \in 1..Len(s) :
            MatchesNZAt(s, i) /\ \A j \in 1..(i - 1) : ~MatchesNZAt(s, j)
    ELSE 0

\* String.prototype.substring(0, end) with end given as a position from 1.
Before(s, pos) == SubSeq(s, 1, pos - 1)

RECURSIVE TrimLeft(_)
TrimLeft(s) == IF s # <<>> /\ s[1] = " " THEN TrimLeft(Tail(s)) ELSE s

RECURSIVE TrimRight(_)
TrimRight(s) ==
    IF s # <<>> /\ s[Len(s)] = " " THEN TrimRight(SubSeq(s, 1, Len(s) - 1)) ELSE s

\* String.prototype.trim
Trim(s) == TrimRight(TrimLeft(s))

RECURSIVE StripTrailingPunctuation(_)
\* replace(/[\.\,\?]+$/, "")
StripTrailingPunctuation(s) ==
    IF s # <<>> /\ s[Len(s)] \in {".", ",", "?"}
    THEN StripTrailingPunctuation(SubSeq(s, 1, Len(s) - 1))
    ELSE s

\* name.replace(/\?/, ""): the first question mark only.
RemoveFirstQuestionMark(s) ==
    LET p == IndexOf(s, "?")
    IN  IF p = 0 THEN s ELSE SubSeq(s, 1, p - 1) \o SubSeq(s, p + 1, Len(s))

(***************************************************************************)
(* nznShared (./nzn-shared), which is not part of the sources at hand.     *)
(***************************************************************************)

\* nznShared.titleCleanup: whitespace cleanup of a title or name.
titleCleanup(s) == IF s = NullStr THEN NullStr ELSE Trim(s)

\* No newspaper id (let newspaperId = null).
NoId == 0

SetMax(S) == CHOOSE x \in S : \A y \in S : y <= x

\* nznShared.getNextNewspaperId: an id no stored record has.
getNextNewspaperId(st) == IF DOMAIN st = {} THEN 1 ELSE SetMax(DOMAIN st) + 1

\* nznShared.readNewspaper: the stored record of an id.
readNewspaper(st, id) == st[id]

\* nznShared.writeNewspaper: the record becomes the stored record of the id.
writeNewspaper(st, id, rec) ==
    [i \in DOMAIN st \cup {id} |-> IF i = id THEN rec ELSE st[i]]

\* nznShared.getNewspaperRecords: every stored record, by id; Object.entries
\* walks integer-like keys in ascending order.
RECURSIVE SortedIds(_)
SortedIds(S) ==
    IF S = {} THEN <<>>
    ELSE LET m == CHOOSE x \in S : \A y \in S : x <= y
         IN  <<m>> \o SortedIds(S \ {m})

getNewspaperRecords(st) == SortedIds(DOMAIN st)

(***************************************************************************)
(* Names and values used in the MARC entries and the stored records.       *)
(***************************************************************************)

Gore == <<"G", "o", "r", "e">>
Otaki == <<"O", "t", "a", "k", "i">>
GoreNZ == <<"[", "G", "o", "r", "e", ",", " ", "N", ".", "Z", ".", "]">>
OtakiQ == <<"O", "t", "a", "k", "i", "?">>
Apia == <<"A", "p", "i", "a">>

Monthly == <<"M", "o", "n", "t", "h", "l", "y">>
MonthlyDot == <<" ", "M", "o", "n", "t", "h", "l", "y", ".">>
Weekly == <<"W", "e", "e", "k", "l", "y">>
Annual == <<"A", "n", "n", "u", "a", "l">>
Semiannual == <<"S", "e", "m", "i", "a", "n", "n", "u", "a", "l">>
Quarterly == <<"Q", "u", "a", "r", "t", "e", "r", "l", "y">>

\* The frequencies the code treats as too infrequent (lines 351-356).
InfrequentFrequencies == {Annual, Semiannual, Quarterly, Monthly}

(***************************************************************************)
(* placeCleanUp(rawName), lines 150-175.                                   *)
(***************************************************************************)

placeCleanUp(rawName) ==
    IF ~Truthy(rawName) THEN NullStr
    ELSE IF \/ Includes(rawName, Apia)
            \/ Includes(rawName, <<"E", "g", "y", "p", "t">>)
            \/ Includes(rawName, <<"L", "o", "n", "d", "o", "n">>)
            \/ Includes(rawName, <<"S", "y", "d", "n", "e", "y">>)
         THEN NullStr
    ELSE
      LET n0 == IF rawName[1] = "[" THEN Tail(rawName) ELSE rawName
          \* indexOf(",") > 1, as a position from 1: > 2
          n1 == IF IndexOf(n0, ",") > 2 THEN Before(n0, IndexOf(n0, ",")) ELSE n0
          n2 == IF SearchNZ(n1) > 2 THEN Before(n1, SearchNZ(n1)) ELSE n1
          n3 == IF IndexOf(n2, "[") > 2 THEN Before(n2, IndexOf(n2, "[")) ELSE n2
          n4 == IF SearchNZ(n0) # 0 THEN n3 ELSE n0
      IN  titleCleanup(RemoveFirstQuestionMark(n4))

(***************************************************************************)
(* Mode selection, lines 33-54.                                            *)
(***************************************************************************)

\* process.argv has no third element: commandArgs[0] is undefined.
NoArg == "<undefined>"

\* String.prototype.toLowerCase on the arguments used here.
toLowerCase(a) ==
    CASE a = "REPORT" -> "report"
      [] a = "Add-New-Records" -> "add-new-records"
      [] OTHER -> a

\* The switch of lines 37-53.
selectMode(arg) ==
    CASE toLowerCase(arg) = "report" -> "report"
      [] toLowerCase(arg) = "add-new-records" -> "add-new-records"
      [] toLowerCase(arg) = "update-existing-records" -> "update-existing-records"
      [] toLowerCase(arg) = "update-marc-files" -> "update-marc-files"
      [] OTHER -> "report"

NoMessage == [kind |-> "none"]

\* The run state a fresh process starts with; the files on disk stay.
FreshProcess ==
    /\ mode' = "report"
    /\ buildIdx' = 0
    /\ marcNumberToNewspaperId' = <<>>
    /\ placeData' = <<>>
    /\ stats' = <<>>
    /\ recordCounter' = 0
    /\ serialCounter' = 0
    /\ newspaperCounter' = 0
    /\ cursor' = 0
    /\ writes' = <<>>
    /\ fatalMessage' = NoMessage
    /\ tick' = FALSE
    /\ snapshots' = <<>>

\* Lines 33-54: commandArgs[0].toLowerCase() throws a TypeError when no
\* argument is given; otherwise the switch sets the mode.
SelectMode(arg) ==
    /\ pc = "start"
    /\ IF arg = NoArg
       THEN /\ pc' = "fatal"
            /\ fatalMessage' = [kind |-> "TypeError"]
            /\ UNCHANGED mode
       ELSE /\ pc' = "build"
            /\ mode' = selectMode(arg)
            /\ UNCHANGED fatalMessage
    /\ UNCHANGED <<run, store, buildIdx, marcNumberToNewspaperId, placeData,
                   stats, recordCounter, serialCounter, newspaperCounter,
                   input, cursor, writes, tick, snapshots>>

(***************************************************************************)
(* The index build loop, lines 59-98.                                      *)
(***************************************************************************)

\* A control number is a string; "" stands for null, undefined and "".
NoCN == ""

\* Whether an object has a (truthy) entry under a key.
Has(obj, key) == key \in DOMAIN obj

Put(obj, key, val) == [k \in DOMAIN obj \cup {key} |-> IF k = key THEN val ELSE obj[k]]

\* Variant: a control number seen before replaces the registered id.
indexRecord_Overwrite(index, id, newspaper) ==
    IF newspaper.idMarcControlNumber = NoCN THEN [dup |-> FALSE, index |-> index]
    ELSE [dup |-> FALSE, index |-> Put(index, newspaper.idMarcControlNumber, id)]

\* Lines 65-88: register the record's control number, or find it registered.
indexRecord(index, id, newspaper) ==
    IF newspaper.idMarcControlNumber = NoCN THEN [dup |-> FALSE, index |-> index]
    ELSE IF ~Has(index, newspaper.idMarcControlNumber)
    THEN [dup |-> FALSE, index |-> Put(index, newspaper.idMarcControlNumber, id)]
    ELSE [dup |-> TRUE, index |-> index]

\* Variant: every record of a place name gives the place its data.
registerPlace_LastWins(places, newspaper) ==
    Put(places, newspaper.placename,
        [placecode |-> newspaper.placecode,
         district |-> newspaper.district,
         region |-> newspaper.region])

\* Lines 90-97: the first record of a place name gives the place its data.
registerPlace(places, newspaper) ==
    IF Has(places, newspaper.placename) THEN places
    ELSE Put(places, newspaper.placename,
             [placecode |-> newspaper.placecode,
              district |-> newspaper.district,
              region |-> newspaper.region])

\* One iteration of the loop of line 63.
BuildStep ==
    /\ pc = "build"
    /\ buildIdx < Len(getNewspaperRecords(store))
    /\ LET id == getNewspaperRecords(store)[buildIdx + 1]
           newspaper == store[id]
           r == indexRecord(marcNumberToNewspaperId, id, newspaper)
       IN  IF r.dup
           THEN /\ pc' = "fatal"
                /\ fatalMessage' =
                     [kind |-> "Duplicate MARC number",
                      marcNumber |-> newspaper.idMarcControlNumber,
                      id |-> id,
                      title |-> newspaper.title,
                      genre |-> newspaper.genre,
                      matches |-> marcNumberToNewspaperId[newspaper.idMarcControlNumber],
                      matchesTitle |->
                        store[marcNumberToNewspaperId[newspaper.idMarcControlNumber]].title]
                /\ UNCHANGED <<buildIdx, marcNumberToNewspaperId, placeData>>
           ELSE /\ marcNumberToNewspaperId' = r.index
                /\ placeData' = registerPlace(placeData, newspaper)
                /\ buildIdx' = buildIdx + 1
                /\ UNCHANGED <<pc, fatalMessage>>
    /\ UNCHANGED <<run, mode, store, stats, recordCounter, serialCounter,
                   newspaperCounter, input, cursor, writes, tick, snapshots>>

\* Lines 100-110, 544-545 and 222-229: the loop is over, readMarcFile opens
\* the reader and arms the interval timer.
LaunchParser ==
    /\ pc = "build"
    /\ buildIdx = Len(getNewspaperRecords(store))
    /\ pc' = "streaming"
    /\ tick' = TRUE
    /\ UNCHANGED <<run, mode, store, buildIdx, marcNumberToNewspaperId,
                   placeData, stats, recordCounter, serialCounter,
                   newspaperCounter, input, cursor, writes, fatalMessage,
                   snapshots>>

(***************************************************************************)
(* The reader's data handler, lines 239-541.                               *)
(***************************************************************************)

\* Variant: a label that has a count keeps it.
addStats_NoIncrement(st, label) ==
    IF Has(st, label) THEN st ELSE Put(st, label, 1)

\* Variant: a matched entry is not counted as an existing record.
addStats_MatchNotCounted(st, label) ==
    IF label = "count-existing-record" THEN st
    ELSE IF Has(st, label) THEN [st EXCEPT ![label] = @ + 1] ELSE Put(st, label, 1)

\* Lines 112-118.
addStats(st, label) ==
    IF Has(st, label) THEN [st EXCEPT ![label] = @ + 1] ELSE Put(st, label, 1)

Stat(st, label) == IF Has(st, label) THEN st[label] ELSE 0

MicroformMedium == <<"[", "m", "i", "c", "r", "o", "f", "o", "r", "m", "]">>
ElectronicMedium == <<"[", "e", "l", "e", "c", "t", "r", "o", "n", "i", "c", " ", "r", "e", "s", "o", "u", "r", "c", "e", "]">>
Microf == <<"m", "i", "c", "r", "o", "f">>
OnlineResource == <<"o", "n", "l", "i", "n", "e", " ", "r", "e", "s", "o", "u", "r", "c", "e">>
ElectronicDocuments == <<"e", "l", "e", "c", "t", "r", "o", "n", "i", "c", " ", "d", "o", "c", "u", "m", "e", "n", "t", "s">>

\* Lines 241-244.
isSerial(e) == e.recordType = "a" /\ e.bibLevel = "s"

\* Lines 254-261: the last 008 field sets the values; none leaves them null.
field008(e) ==
    IF e.f008 = <<>>
    THEN [dateOnFile |-> 0, typeOfDate |-> "", date1 |-> NullStr,
          date2 |-> NullStr, continuingResourceType |-> ""]
    ELSE e.f008[Len(e.f008)]

\* Line 264.
isNewspaper(e) == isSerial(e) /\ field008(e).continuingResourceType = "n"

\* Lines 272-282: the numbers of the 035 $a subfields that start with "(Nz)".
marcControlNumberList(e) ==
    LET nz == SelectSeq(e.f035, LAMBDA v : v.ns = "(Nz)")
    IN  [i \in 1..Len(nz) |-> nz[i].number]

\* The last such number (null when there is none).
marcControlNumberOf(e) ==
    LET l == marcControlNumberList(e)
    IN  IF l = <<>> THEN NoCN ELSE l[Len(l)]

\* The id registered for the last such number that has one.
matchedNewspaperId(e, index) ==
    LET l == marcControlNumberList(e)
        hits == {i \in 1..Len(l) : l[i] # NoCN /\ Has(index, l[i])}
    IN  IF hits = {} THEN NoId ELSE index[l[SetMax(hits)]]

\* Lines 297-300 and 332-333.
isMicroformResource(e) ==
    \/ \E i \in 1..Len(e.f245h) :
          /\ ~StartsWith(e.f245h[i], ElectronicMedium)
          /\ StartsWith(e.f245h[i], MicroformMedium)
    \/ \E i \in 1..Len(e.f300a) : Includes(e.f300a[i], Microf)

\* Lines 297-298 and 334-337.
isElectronicResource(e) ==
    \/ \E i \in 1..Len(e.f245h) : StartsWith(e.f245h[i], ElectronicMedium)
    \/ \E i \in 1..Len(e.f300a) :
          /\ ~Includes(e.f300a[i], Microf)
          /\ \/ Includes(e.f300a[i], OnlineResource)
             \/ Includes(e.f300a[i], ElectronicDocuments)

\* Lines 349-350: the last 310 $a, trimmed, without its trailing punctuation.
frequencyOf(e) ==
    IF e.f310a = <<>> THEN NullStr
    ELSE StripTrailingPunctuation(Trim(e.f310a[Len(e.f310a)]))

\* Lines 351-356.
infrequentOf(e) == e.f310a # <<>> /\ frequencyOf(e) \in InfrequentFrequencies

\* Lines 374-381: the last 260 $a, cleaned up.
placenameOf(e) ==
    IF e.f260a = <<>> THEN NullStr ELSE placeCleanUp(e.f260a[Len(e.f260a)])

\* Variant: a matched entry is updated before the format, frequency and place
\* checks are made.
classify_MatchBeforeSkips(e, index) ==
    IF marcControlNumberOf(e) = NoCN THEN "count-skipped-no-nz-control-number"
    ELSE IF matchedNewspaperId(e, index) # NoId THEN "count-existing-record"
    ELSE IF isMicroformResource(e) THEN "count-skipped-micoform"
    ELSE IF isElectronicResource(e) THEN "count-skipped-electronic"
    ELSE IF infrequentOf(e) THEN "count-skipped-infrequent"
    ELSE IF ~Truthy(placenameOf(e)) THEN "count-skipped-placename"
    ELSE "count-new-record"

\* Variant: the infrequent check comes after the place check and is lost.
classify_NoInfrequent(e, index) ==
    IF marcControlNumberOf(e) = NoCN THEN "count-skipped-no-nz-control-number"
    ELSE IF isMicroformResource(e) THEN "count-skipped-micoform"
    ELSE IF isElectronicResource(e) THEN "count-skipped-electronic"
    ELSE IF ~Truthy(placenameOf(e)) THEN "count-skipped-placename"
    ELSE IF matchedNewspaperId(e, index) # NoId THEN "count-existing-record"
    ELSE "count-new-record"

\* Variant: the electronic check comes before the microform check.
classify_ElectronicFirst(e, index) ==
    IF marcControlNumberOf(e) = NoCN THEN "count-skipped-no-nz-control-number"
    ELSE IF isElectronicResource(e) THEN "count-skipped-electronic"
    ELSE IF isMicroformResource(e) THEN "count-skipped-micoform"
    ELSE IF infrequentOf(e) THEN "count-skipped-infrequent"
    ELSE IF ~Truthy(placenameOf(e)) THEN "count-skipped-placename"
    ELSE IF matchedNewspaperId(e, index) # NoId THEN "count-existing-record"
    ELSE "count-new-record"

\* Lines 393-408 and 467-469: the branch taken, named by the label it counts.
classify(e, index) ==
    IF marcControlNumberOf(e) = NoCN THEN "count-skipped-no-nz-control-number"
    ELSE IF isMicroformResource(e) THEN "count-skipped-micoform"
    ELSE IF isElectronicResource(e) THEN "count-skipped-electronic"
    ELSE IF infrequentOf(e) THEN "count-skipped-infrequent"
    ELSE IF ~Truthy(placenameOf(e)) THEN "count-skipped-placename"
    ELSE IF matchedNewspaperId(e, index) # NoId THEN "count-existing-record"
    ELSE "count-new-record"

\* Variant: the dates of the entry always replace the stored ones.
updatedNewspaper_Always(newspaper, date1, date2) ==
    [newspaper EXCEPT !.firstYear = date1, !.finalYear = date2,
                      !.isCurrent = (date2 = Y9999)]

\* Lines 429-452: the stored record with the entry's dates applied.
updatedNewspaper(newspaper, date1, date2) ==
    LET firstYear ==
            IF newspaper.firstYear # date1
               /\ isNewDateMoreSpecific(newspaper.firstYear, date1)
            THEN date1 ELSE newspaper.firstYear
        finalYear ==
            IF newspaper.finalYear # date2
               /\ isNewDateMoreSpecific(newspaper.finalYear, date2)
            THEN date2 ELSE newspaper.finalYear
    IN  [newspaper EXCEPT !.firstYear = firstYear, !.finalYear = finalYear,
                          !.isCurrent = (finalYear = Y9999)]

\* Last load was: 2013-04-02 (line 473); both sides are six-digit strings, so
\* the string comparison is the comparison of the numbers.
LastLoad == 130402

\* Variant: a new record never takes its place data from the place table.
newRecordOf_UnknownPlace(e, newspaperId, places) ==
    LET f == field008(e)
    IN  [id |-> newspaperId,
         title |-> titleCleanup(e.title),
         genre |-> "Unknown",
         idMarcControlNumber |-> marcControlNumberOf(e),
         isCurrent |-> (f.typeOfDate = "c"),
         firstYear |-> f.date1,
         finalYear |-> f.date2,
         frequency |-> IF Truthy(frequencyOf(e)) THEN frequencyOf(e) ELSE NullStr,
         placename |-> placenameOf(e),
         placecode |-> "unknown",
         district |-> "Unknown District",
         region |-> "Unknown Region"]

\* Lines 497-517: the record of a new newspaper.
newRecordOf(e, newspaperId, places) ==
    LET f == field008(e)
        placename == placenameOf(e)
        known == Has(places, placename)
    IN  [id |-> newspaperId,
         title |-> titleCleanup(e.title),
         genre |-> "Unknown",
         idMarcControlNumber |-> marcControlNumberOf(e),
         isCurrent |-> (f.typeOfDate = "c"),
         firstYear |-> f.date1,
         finalYear |-> f.date2,
         frequency |-> IF Truthy(frequencyOf(e)) THEN frequencyOf(e) ELSE NullStr,
         placename |-> placename,
         placecode |-> IF known THEN places[placename].placecode ELSE "unknown",
         district |-> IF known THEN places[placename].district ELSE "Unknown District",
         region |-> IF known THEN places[placename].region ELSE "Unknown Region"]

\* Variant: mode "report" writes no archival copy.
marcWrites_UnlessReport(n, newspaperId, cn) ==
    IF mode # "report" /\ newspaperId # NoId /\ cn # NoCN
    THEN <<[n |-> n, op |-> "marc", id |-> newspaperId, cn |-> cn]>>
    ELSE <<>>

\* Lines 530-537: the archival copy of the entry.
marcWrites(n, newspaperId, cn) ==
    IF newspaperId # NoId /\ cn # NoCN
    THEN <<[n |-> n, op |-> "marc", id |-> newspaperId, cn |-> cn]>>
    ELSE <<>>

\* The handler of line 239 for one entry e.
OnData(e) ==
    /\ recordCounter' = recordCounter + 1
    /\ serialCounter' = IF isSerial(e) THEN serialCounter + 1 ELSE serialCounter
    /\ newspaperCounter' =
         IF isNewspaper(e) THEN newspaperCounter + 1 ELSE newspaperCounter
    /\ cursor' = cursor + 1
    /\ IF ~isNewspaper(e)
       THEN UNCHANGED <<stats, store, writes>>
       ELSE
         LET label == classify(e, marcNumberToNewspaperId)
             cn == marcControlNumberOf(e)
             matched == matchedNewspaperId(e, marcNumberToNewspaperId)
             f == field008(e)
             n == cursor + 1
         IN  CASE label = "count-existing-record" ->
                    LET newspaper == readNewspaper(store, matched)
                        after == updatedNewspaper(newspaper, f.date1, f.date2)
                        updated == after # newspaper
                    IN  /\ stats' =
                             IF updated
                             THEN addStats(addStats(stats, label),
                                           "count-existing-record-updated")
                             ELSE addStats(stats, label)
                        /\ store' =
                             IF updated THEN writeNewspaper(store, matched, after)
                             ELSE store
                        /\ writes' = writes
                             \o (IF updated
                                 THEN <<[n |-> n, op |-> "update", id |-> matched,
                                         cn |-> cn]>>
                                 ELSE <<>>)
                             \o marcWrites(n, matched, cn)
               [] label = "count-new-record" ->
                    LET newspaperId == getNextNewspaperId(store)
                    IN  /\ stats' =
                             IF f.dateOnFile > LastLoad
                             THEN addStats(addStats(stats, label),
                                           "count-new-record-since-last-load")
                             ELSE addStats(stats, label)
                        /\ store' = writeNewspaper(store, newspaperId,
                                        newRecordOf(e, newspaperId, placeData))
                        /\ writes' = writes
                             \o <<[n |-> n, op |-> "create", id |-> newspaperId,
                                   cn |-> cn]>>
                             \o marcWrites(n, newspaperId, cn)
               [] OTHER ->
                    /\ stats' = addStats(stats, label)
                    /\ store' = store
                    /\ writes' = writes \o marcWrites(n, matched, cn)
    /\ UNCHANGED <<pc, run, mode, buildIdx, marcNumberToNewspaperId, placeData,
                   fatalMessage, tick, snapshots>>

(***************************************************************************)
(* The stream: data, end, and a later run of the script.                   *)
(***************************************************************************)

\* Entries in the MARC file.
MaxEntries == 2

\* Runs of the script against the same file.
MaxRuns == 2

\* The reader delivers the next entry of the file. The first run fixes the
\* file entry by entry; a later run reads the same file again.
Data(entries) ==
    /\ pc = "streaming"
    /\ IF run = 1
       THEN /\ cursor < MaxEntries
            /\ \E e \in entries : OnData(e) /\ input' = Append(input, e)
       ELSE /\ cursor < Len(input)
            /\ OnData(input[cursor + 1])
            /\ UNCHANGED input

\* Lines 129-142: logStats prints the counters.
logStats(log, kind) ==
    Append(log, [kind |-> kind, mode |-> mode, records |-> recordCounter,
                 serials |-> serialCounter, papers |-> newspaperCounter,
                 stats |-> stats])

\* Progress snapshots of one run.
MaxTicks == 2

Periodic(log) == SelectSeq(log, LAMBDA s : s.kind = "tick")

\* Lines 227-229: the callback of the interval timer, every 5 seconds while
\* the timer is armed, between two handlers of the event loop.
Tick ==
    /\ tick
    /\ Len(Periodic(snapshots)) < MaxTicks
    /\ snapshots' = logStats(snapshots, "tick")
    /\ UNCHANGED <<pc, run, mode, store, buildIdx, marcNumberToNewspaperId,
                   placeData, stats, recordCounter, serialCounter,
                   newspaperCounter, input, cursor, writes, fatalMessage, tick>>

\* Variant: the end handler leaves the interval timer armed.
OnEnd_TimerKept ==
    /\ pc = "streaming"
    /\ run = 1 \/ cursor = Len(input)
    /\ pc' = "done"
    /\ snapshots' = logStats(snapshots, "end")
    /\ UNCHANGED <<run, mode, store, buildIdx, marcNumberToNewspaperId,
                   placeData, stats, recordCounter, serialCounter,
                   newspaperCounter, input, cursor, writes, fatalMessage, tick>>

\* Lines 232-236: the reader has reached the end of the file; the final
\* logStats, then clearInterval.
OnEnd ==
    /\ pc = "streaming"
    /\ run = 1 \/ cursor = Len(input)
    /\ pc' = "done"
    /\ snapshots' = logStats(snapshots, "end")
    /\ tick' = FALSE
    /\ UNCHANGED <<run, mode, store, buildIdx, marcNumberToNewspaperId,
                   placeData, stats, recordCounter, serialCounter,
                   newspaperCounter, input, cursor, writes, fatalMessage>>

\* The script is started again on the same MARC file and the same directory.
RunAgain ==
    /\ pc = "done"
    /\ run < MaxRuns
    /\ run' = run + 1
    /\ pc' = "start"
    /\ FreshProcess
    /\ UNCHANGED <<store, input>>

(***************************************************************************)
(* The entries and the stored records the model runs on.                   *)
(***************************************************************************)

Nz(number) == [ns |-> "(Nz)", number |-> number]
OCoLC(number) == [ns |-> "(OCoLC)", number |-> number]

TheTitle == <<"S", "u", "n", " ">>

Field008(typeOfDate, date1, date2, crType) ==
    [dateOnFile |-> 200101, typeOfDate |-> typeOfDate, date1 |-> date1,
     date2 |-> date2, continuingResourceType |-> crType]

\* A newspaper entry: leader "as", 008/21 = "n".
NewspaperEntry(f035, f008, f245h, f300a, f310a, f260a) ==
    [recordType |-> "a", bibLevel |-> "s", f008 |-> <<f008>>, f035 |-> f035,
     title |-> TheTitle, f245h |-> f245h, f300a |-> f300a, f310a |-> f310a,
     f260a |-> f260a]

\* A book, and a serial that is not a newspaper.
BookEntry ==
    [recordType |-> "a", bibLevel |-> "m", f008 |-> <<>>, f035 |-> <<Nz("A")>>,
     title |-> TheTitle, f245h |-> <<>>, f300a |-> <<>>, f310a |-> <<>>,
     f260a |-> <<Gore>>]

PeriodicalEntry ==
    [recordType |-> "a", bibLevel |-> "s",
     f008 |-> <<Field008("c", Y1970, Y9999, "p")>>, f035 |-> <<Nz("A")>>,
     title |-> TheTitle, f245h |-> <<>>, f300a |-> <<>>, f310a |-> <<>>,
     f260a |-> <<Gore>>]

\* Type of date and the two dates of the 008 field.
DateCases ==
    {Field008("c", Y19uu, Y9999, "n"),
     Field008("d", Y1970, Y197u, "n"),
     Field008("c", Y197u, Y1970, "n"),
     Field008("d", Y1uuu, Yuuuu, "n"),
     Field008("d", Y197u, Y1971, "n")}

\* Entries that differ in their control numbers and dates.
DateEntries ==
    {NewspaperEntry(f035, f008, <<>>, <<>>, <<Weekly>>, <<GoreNZ>>) :
        f035 \in {<<Nz("A")>>, <<Nz("B")>>}, f008 \in DateCases}
    \cup {BookEntry, PeriodicalEntry,
          NewspaperEntry(<<Nz("A"), Nz("B")>>, Field008("d", Y1970, Y1971, "n"),
                         <<>>, <<>>, <<>>, <<OtakiQ>>),
          NewspaperEntry(<<Nz("A")>>, Field008("d", Y1970, Y1971, "n"),
                         <<>>, <<>>, <<MonthlyDot>>, <<Gore>>),
          NewspaperEntry(<<OCoLC("A")>>, Field008("d", Y1970, Y1971, "n"),
                         <<>>, <<>>, <<>>, <<Gore>>)}

\* 245 $h and 300 $a of an entry.
FormatCases ==
    {<< <<>>, <<>> >>,
     << <<MicroformMedium>>, <<>> >>,
     << <<ElectronicMedium>>, <<<<"2", " ", "m", "i", "c", "r", "o", "f", "i", "l", "m", " ", "r", "e", "e", "l", "s">>>> >>,
     << <<>>, <<<<"1", " ", "o", "n", "l", "i", "n", "e", " ", "r", "e", "s", "o", "u", "r", "c", "e">>>> >>}

\* Entries that differ in what the skip conditions read.
SkipEntries ==
    {NewspaperEntry(f035, Field008("d", Y1970, Y1971, "n"), fmt[1], fmt[2],
                    f310a, f260a) :
        f035 \in {<<OCoLC("A")>>, <<Nz("A")>>},
        fmt \in FormatCases,
        f310a \in {<<Weekly>>, <<MonthlyDot>>, <<Monthly, Weekly>>},
        f260a \in {<<GoreNZ>>, <<Apia>>}}
    \cup {BookEntry, PeriodicalEntry}

StoredRecord(id, cn, firstYear, finalYear, isCurrent, placename, placecode) ==
    [id |-> id, title |-> TheTitle, genre |-> "Newspaper",
     idMarcControlNumber |-> cn, isCurrent |-> isCurrent,
     firstYear |-> firstYear, finalYear |-> finalYear, frequency |-> NullStr,
     placename |-> placename, placecode |-> placecode,
     district |-> "Gore District", region |-> "Southland"]

\* Stores with one control number per record at most.
UniqueStores ==
    {<<>>,
     <<StoredRecord(1, "A", Y19uu, Y197u, FALSE, Gore, "15-03")>>,
     <<StoredRecord(1, "A", Y1970, Y9999, TRUE, Gore, "15-03")>>,
     <<StoredRecord(1, "A", Y1uuu, Yuuuu, FALSE, Gore, "15-03")>>,
     <<StoredRecord(1, "A", Y19uu, Y9999, FALSE, Gore, "15-03")>>,
     <<StoredRecord(1, "A", Y19uu, Y197u, FALSE, Gore, "15-03"),
       StoredRecord(2, "B", Y197u, Y1971, FALSE, Gore, "15-04")>>,
     <<StoredRecord(1, "A", Y19uu, Y197u, FALSE, Gore, "15-03"),
       StoredRecord(2, NoCN, Y197u, Y1971, FALSE, Otaki, "08-01")>>}

\* Stores in which two records carry the same control number.
DuplicateStores ==
    {<<StoredRecord(1, "A", Y19uu, Y197u, FALSE, Gore, "15-03"),
       StoredRecord(2, "A", Y197u, Y1971, FALSE, Gore, "15-04")>>,
     <<StoredRecord(1, NoCN, Y19uu, Y197u, FALSE, Gore, "15-03"),
       StoredRecord(2, "B", Y197u, Y1971, FALSE, Gore, "15-04"),
       StoredRecord(3, "B", Y197u, Y1971, FALSE, Otaki, "08-01")>>}

\* The arguments the script is started with.
Arguments == {NoArg, "REPORT", "Add-New-Records", "bogus"}

(***************************************************************************)
(* The values of the variables of a script that is not running.            *)
(***************************************************************************)

DatesIdle ==
    /\ dpc = "idle"
    /\ currentDate = Yuuuu
    /\ newDate = Yuuuu
    /\ dresult = FALSE

RIdle ==
    /\ pc = "idle"
    /\ run = 1
    /\ mode = "report"
    /\ store = <<>>
    /\ buildIdx = 0
    /\ marcNumberToNewspaperId = <<>>
    /\ placeData = <<>>
    /\ stats = <<>>
    /\ recordCounter = 0
    /\ serialCounter = 0
    /\ newspaperCounter = 0
    /\ input = <<>>
    /\ cursor = 0
    /\ writes = <<>>
    /\ fatalMessage = NoMessage
    /\ tick = FALSE
    /\ snapshots = <<>>

IIdle ==
    /\ ipc = "idle"
    /\ files = <<>>
    /\ files0 = <<>>
    /\ rows = <<>>
    /\ pending = <<>>
    /\ exitCode = 0

(***************************************************************************)
(* The reconciliation as a whole.                                          *)
(***************************************************************************)

ReconcileInit(stores) ==
    /\ pc = "start"
    /\ run = 1
    /\ mode = "report"
    /\ store \in stores
    /\ buildIdx = 0
    /\ marcNumberToNewspaperId = <<>>
    /\ placeData = <<>>
    /\ stats = <<>>
    /\ recordCounter = 0
    /\ serialCounter = 0
    /\ newspaperCounter = 0
    /\ input = <<>>
    /\ cursor = 0
    /\ writes = <<>>
    /\ fatalMessage = NoMessage
    /\ tick = FALSE
    /\ snapshots = <<>>

Init == DatesIdle /\ IIdle /\ ReconcileInit(UniqueStores \cup DuplicateStores)

Start == \E arg \in Arguments : SelectMode(arg)

Stream == Data(DateEntries)

Next ==
    \/ (Start /\ UNCHANGED <<dvars, ivars>>)
    \/ (BuildStep /\ UNCHANGED <<dvars, ivars>>)
    \/ (LaunchParser /\ UNCHANGED <<dvars, ivars>>)
    \/ (Stream /\ UNCHANGED <<dvars, ivars>>)
    \/ (OnEnd /\ UNCHANGED <<dvars, ivars>>)
    \/ (RunAgain /\ UNCHANGED <<dvars, ivars>>)

Spec == Init /\ [][Next]_vars

\* One run on entries that differ in what the skip conditions read.
InitSkip ==
    DatesIdle /\ IIdle /\ ReconcileInit({<<>>,
        <<StoredRecord(1, "A", Y19uu, Y197u, FALSE, Gore, "15-03")>>})

StartReport == SelectMode("REPORT")

StreamSkip == Data(SkipEntries)

NextSkip ==
    \/ (StartReport /\ UNCHANGED <<dvars, ivars>>)
    \/ (BuildStep /\ UNCHANGED <<dvars, ivars>>)
    \/ (LaunchParser /\ UNCHANGED <<dvars, ivars>>)
    \/ (StreamSkip /\ UNCHANGED <<dvars, ivars>>)
    \/ (OnEnd /\ UNCHANGED <<dvars, ivars>>)

SpecSkip == InitSkip /\ [][NextSkip]_vars

\* One run in any mode, with the progress timer firing.
ModeArguments ==
    {"REPORT", "Add-New-Records", "update-existing-records",
     "update-marc-files", "bogus"}

RunEntries ==
    {NewspaperEntry(<<Nz("A")>>, Field008("d", Y1970, Y197u, "n"),
                    <<>>, <<>>, <<Weekly>>, <<GoreNZ>>),
     NewspaperEntry(<<Nz("B")>>, Field008("c", Y19uu, Y9999, "n"),
                    <<>>, <<>>, <<Weekly>>, <<GoreNZ>>),
     NewspaperEntry(<<Nz("A")>>, Field008("d", Y1970, Y1971, "n"),
                    <<>>, <<>>, <<MonthlyDot>>, <<Gore>>),
     BookEntry}

InitRun ==
    DatesIdle /\ IIdle /\ ReconcileInit({<<>>,
        <<StoredRecord(1, "A", Y19uu, Y197u, FALSE, Gore, "15-03")>>})

StartRun == \E arg \in ModeArguments : SelectMode(arg)

StreamRun == Data(RunEntries)

NextRun ==
    \/ (StartRun /\ UNCHANGED <<dvars, ivars>>)
    \/ (BuildStep /\ UNCHANGED <<dvars, ivars>>)
    \/ (LaunchParser /\ UNCHANGED <<dvars, ivars>>)
    \/ (StreamRun /\ UNCHANGED <<dvars, ivars>>)
    \/ (Tick /\ UNCHANGED <<dvars, ivars>>)
    \/ (OnEnd /\ UNCHANGED <<dvars, ivars>>)

SpecRun == InitRun /\ [][NextRun]_vars

(***************************************************************************)
(* Properties of the reconciliation.                                       *)
(***************************************************************************)

\* The create and update writes among a sequence of writes.
RecordWrites(ws) == SelectSeq(ws, LAMBDA w : w.op \in {"create", "update"})

\* Two stored records carry the same non-empty control number.
HasDuplicate(st) ==
    \E i \in DOMAIN st, j \in DOMAIN st :
        /\ i # j
        /\ st[i].idMarcControlNumber # NoCN
        /\ st[i].idMarcControlNumber = st[j].idMarcControlNumber

\* C1 (as stated): a second run on the unchanged input, against the store the
\* first run left, issues no update write and no create write.
C1_SecondRunWritesNothing == run = 2 => RecordWrites(writes) = <<>>

\* C2 (as stated): no step of the reconciliation takes a store in which the
\* control numbers are unique to one in which two records share one.
C2_ControlNumbersStayUnique ==
    [][~HasDuplicate(store) => ~HasDuplicate(store')]_vars

\* The run got past the mode selection and into the index build.
IndexBuildEntered == pc # "start" /\ fatalMessage.kind # "TypeError"

\* C3: with two stored records sharing a control number the index build loop
\* never completes; it ends in the fatal state with a message naming both
\* ids, before any entry is streamed or any file written.
C3_DuplicateIsFatal ==
    /\ (HasDuplicate(store) /\ cursor = 0 /\ IndexBuildEntered)
          => /\ pc \in {"build", "fatal"}
             /\ pc = "build" => buildIdx < Len(getNewspaperRecords(store))
             /\ pc = "fatal" => fatalMessage.kind = "Duplicate MARC number"
    /\ (pc = "fatal" /\ fatalMessage.kind = "Duplicate MARC number")
          => /\ fatalMessage.id \in DOMAIN store
             /\ fatalMessage.matches \in DOMAIN store
             /\ fatalMessage.id # fatalMessage.matches
             /\ store[fatalMessage.id].idMarcControlNumber = fatalMessage.marcNumber
             /\ store[fatalMessage.matches].idMarcControlNumber = fatalMessage.marcNumber
             /\ fatalMessage.marcNumber # NoCN
             /\ cursor = 0
             /\ recordCounter = 0
             /\ writes = <<>>

C3_Witness ==
    /\ pc = "fatal"
    /\ run = 1
    /\ fatalMessage.kind = "Duplicate MARC number"
    /\ fatalMessage.id = 3
    /\ fatalMessage.matches = 2

\* C8: no step replaces a stored firstYear or finalYear that has no unknown
\* marker ("9999" and full years), and no step leaves a stored date with more
\* trailing unknown markers than it had.
DateKept(old, new) ==
    /\ ~HasUnknownMarker(old) => new = old
    /\ TrailingUnknown(new) <= TrailingUnknown(old)

C8_DatesNeverLoseSpecificity ==
    [][\A id \in DOMAIN store :
          /\ id \in DOMAIN store'
          /\ DateKept(store[id].firstYear, store'[id].firstYear)
          /\ DateKept(store[id].finalYear, store'[id].finalYear)]_vars

\* An update that changed the first year of a record and kept its "9999",
\* which the entry's second date differs from.
C8_Witness ==
    /\ pc = "streaming"
    /\ run = 1
    /\ cursor = 1
    /\ \E i \in 1..Len(writes) : writes[i].op = "update" /\ writes[i].id = 1
    /\ store[1].finalYear = Y9999
    /\ store[1].firstYear = Y1970
    /\ field008(input[1]).date2 = Y197u

\* Every label the handler counts under.
SkipLabels ==
    <<"count-skipped-no-nz-control-number", "count-skipped-micoform",
      "count-skipped-electronic", "count-skipped-infrequent",
      "count-skipped-placename">>

HandledLabels ==
    {"count-existing-record", "count-existing-record-updated",
     "count-new-record", "count-new-record-since-last-load"}

Range(seq) == {seq[i] : i \in 1..Len(seq)}

AllLabels == Range(SkipLabels) \cup HandledLabels

\* The skip conditions of an entry, in the order of the design.
SkipConditions(e) ==
    <<marcControlNumberOf(e) = NoCN, isMicroformResource(e),
      isElectronicResource(e), infrequentOf(e), ~Truthy(placenameOf(e))>>

FirstOf(conds) ==
    CHOOSE k \in 1..Len(conds) : conds[k] /\ \A j \in 1..(k - 1) : ~conds[j]

\* The step is the handling of one entry.
EntryStep == pc = "streaming" /\ cursor' = cursor + 1

\* The entry an EntryStep handles.
StepEntry == input'[cursor']

\* The files the step writes.
StepWrites == SubSeq(writes', Len(writes) + 1, Len(writes'))

\* C9: when an entry meets one or more skip conditions, the step counts it
\* under the first of them in the fixed order and under no other label, and
\* neither creates nor updates a record.
C9_SkipPrecedence ==
    [][EntryStep =>
        \A e \in {StepEntry} : \A conds \in {SkipConditions(e)} :
            (isNewspaper(e) /\ \E k \in 1..5 : conds[k]) =>
              \A counted \in {SkipLabels[FirstOf(conds)]} :
                  /\ \A l \in AllLabels :
                        Stat(stats', l) = Stat(stats, l) + (IF l = counted THEN 1 ELSE 0)
                  /\ DOMAIN stats' \subseteq AllLabels
                  /\ store' = store
                  /\ RecordWrites(StepWrites) = <<>>]_vars

\* An entry that is microform, electronic and of a place abroad, counted as
\* microform only.
C9_Witness ==
    /\ cursor = 1
    /\ run = 1
    /\ isNewspaper(input[1])
    /\ SkipConditions(input[1]) = <<FALSE, TRUE, TRUE, FALSE, TRUE>>
    /\ Stat(stats, "count-skipped-micoform") = 1
    /\ Stat(stats, "count-skipped-electronic") = 0
    /\ Stat(stats, "count-skipped-placename") = 0

\* The step handles a newspaper entry whose frequency is "Monthly".
MonthlyStep ==
    EntryStep /\ isNewspaper(StepEntry) /\ frequencyOf(StepEntry) = Monthly

OneSkipCounted ==
    \E k \in 1..4 :
        \A l \in AllLabels :
            Stat(stats', l) = Stat(stats, l) + (IF l = SkipLabels[k] THEN 1 ELSE 0)

\* C10 (as stated): an entry whose frequency is "Monthly" is counted under one
\* skip label and no file at all is written for it.
C10_Original_MonthlyWritesNothing ==
    [][MonthlyStep => (OneSkipCounted /\ StepWrites = <<>>)]_vars

\* C10 (amended): an entry whose frequency is "Monthly" is counted under one
\* skip label and no record is created or updated for it; the archival copy
\* of the entry is written exactly when one of its control numbers is that of
\* a stored record.
C10_MonthlySkipped ==
    [][MonthlyStep =>
        /\ OneSkipCounted
        /\ store' = store
        /\ RecordWrites(StepWrites) = <<>>
        /\ StepWrites =
             (IF matchedNewspaperId(StepEntry, marcNumberToNewspaperId) # NoId
              THEN <<[n |-> cursor', op |-> "marc",
                      id |-> matchedNewspaperId(StepEntry, marcNumberToNewspaperId),
                      cn |-> marcControlNumberOf(StepEntry)]>>
              ELSE <<>>)]_vars

\* A "Monthly" entry whose control number is that of record 1: counted as
\* infrequent, archived, nothing else written.
C10_Witness ==
    /\ cursor = 1
    /\ frequencyOf(input[1]) = Monthly
    /\ Stat(stats, "count-skipped-infrequent") = 1
    /\ writes = <<[n |-> 1, op |-> "marc", id |-> 1, cn |-> "A"]>>

\* C11 (as stated): every record a step creates or updates has isCurrent true
\* exactly when its finalYear is "9999".
C11_IsCurrentFollowsFinalYear ==
    [][\A id \in DOMAIN store' :
          (id \notin DOMAIN store \/ store'[id] # store[id]) =>
              (store'[id].isCurrent = (store'[id].finalYear = Y9999))]_vars

\* The step handles a newspaper entry that meets no skip condition and whose
\* control numbers are those of no stored record.
CreateStep ==
    /\ EntryStep
    /\ isNewspaper(StepEntry)
    /\ \A conds \in {SkipConditions(StepEntry)} : \A k \in 1..5 : ~conds[k]
    /\ matchedNewspaperId(StepEntry, marcNumberToNewspaperId) = NoId

PlaceTriple(r) == <<r.placecode, r.district, r.region>>

UnknownPlace == <<"unknown", "Unknown District", "Unknown Region">>

\* C12: such a step creates one record; its place data are those the place
\* table holds for the cleaned-up place name of the entry, and "unknown",
\* "Unknown District", "Unknown Region" when the table has no such name.
C12_CreateTakesPlaceFromTable ==
    [][CreateStep =>
        \A name \in {placenameOf(StepEntry)} :
            \E id \in DOMAIN store' \ DOMAIN store :
                /\ DOMAIN store' = DOMAIN store \cup {id}
                /\ \A old \in DOMAIN store : store'[old] = store[old]
                /\ RecordWrites(StepWrites) =
                      <<[n |-> cursor', op |-> "create", id |-> id,
                         cn |-> marcControlNumberOf(StepEntry)]>>
                /\ store'[id].placename = name
                /\ PlaceTriple(store'[id]) =
                      (IF name \in DOMAIN placeData
                       THEN PlaceTriple(placeData[name]) ELSE UnknownPlace)]_vars

\* A record created for a place the table knows from record 1.
C12_Witness ==
    /\ pc = "streaming"
    /\ run = 1
    /\ cursor = 1
    /\ writes # <<>>
    /\ writes[1].op = "create"
    /\ writes[1].id = 2
    /\ placenameOf(input[1]) = Gore
    /\ Gore \in DOMAIN placeData
    /\ PlaceTriple(store[2]) = <<"15-03", "Gore District", "Southland">>

Modes == {"report", "add-new-records", "update-existing-records", "update-marc-files"}

\* C13 (as stated): whatever the arguments, the mode selection does not fail:
\* it leaves a mode selected and the run goes on to the index build.
C13_ModeSelectionNeverFails ==
    [][pc = "start" =>
          /\ pc' = "build"
          /\ mode' \in Modes
          /\ fatalMessage' = NoMessage]_vars

\* The step handles a newspaper entry that meets no skip condition and one of
\* whose control numbers is that of a stored record.
MatchStep ==
    /\ EntryStep
    /\ isNewspaper(StepEntry)
    /\ \A conds \in {SkipConditions(StepEntry)} : \A k \in 1..5 : ~conds[k]
    /\ matchedNewspaperId(StepEntry, marcNumberToNewspaperId) # NoId

UpdateWrites(ws) == SelectSeq(ws, LAMBDA w : w.op = "update")

SameDates(old, new) ==
    /\ new.firstYear = old.firstYear
    /\ new.finalYear = old.finalYear
    /\ new.isCurrent = old.isCurrent

\* C14: a matched entry is counted as an existing record; when none of its
\* record's firstYear, finalYear and isCurrent changes, no record is written;
\* the updated-record counter goes up by one exactly with an update write,
\* and never exceeds the existing-record counter.
C14_UnchangedMatchCounted ==
    [][EntryStep =>
        /\ MatchStep =>
              \A m \in {matchedNewspaperId(StepEntry, marcNumberToNewspaperId)} :
                  /\ Stat(stats', "count-existing-record")
                        = Stat(stats, "count-existing-record") + 1
                  /\ SameDates(store[m], store'[m]) =>
                        /\ store' = store
                        /\ RecordWrites(StepWrites) = <<>>
                        /\ Stat(stats', "count-existing-record-updated")
                              = Stat(stats, "count-existing-record-updated")
        /\ Len(UpdateWrites(StepWrites)) \in {0, 1}
        /\ Stat(stats', "count-existing-record-updated")
              = Stat(stats, "count-existing-record-updated")
                  + Len(UpdateWrites(StepWrites))
        /\ Stat(stats', "count-existing-record-updated")
              <= Stat(stats', "count-existing-record")]_vars

\* A matched entry whose dates change nothing in record 1: counted, archived,
\* not written.
C14_Witness ==
    /\ pc = "streaming"
    /\ run = 1
    /\ cursor = 1
    /\ Stat(stats, "count-existing-record") = 1
    /\ Stat(stats, "count-existing-record-updated") = 0
    /\ field008(input[1]).date1 = Y19uu
    /\ store[1].firstYear = Y1970
    /\ writes = <<[n |-> 1, op |-> "marc", id |-> 1, cn |-> "A"]>>

\* The number of create and update writes the design has for the entry of
\* the step: none for an entry that is not a newspaper, for a skip and for a
\* match that changes nothing, one for a create and for a match that changes
\* the record.
ExpectedRecordWrites ==
    IF CreateStep THEN 1
    ELSE IF MatchStep
    THEN (IF \A m \in {matchedNewspaperId(StepEntry, marcNumberToNewspaperId)} :
                SameDates(store[m], store'[m])
          THEN 0 ELSE 1)
    ELSE 0

\* C15: the handling of an entry issues at most one create or update write,
\* as many as the design has for it, and issues it within the step of that
\* entry: the write carries the number of the entry, the store has it when
\* the step is over, and no other step writes.
C15_OneWritePerEntry ==
    [][/\ EntryStep =>
            /\ Len(RecordWrites(StepWrites)) = ExpectedRecordWrites
            /\ Len(RecordWrites(StepWrites)) <= 1
            /\ \A i \in 1..Len(StepWrites) : StepWrites[i].n = cursor'
            /\ (store' # store) = (Len(RecordWrites(StepWrites)) = 1)
       /\ ~EntryStep => (store' = store /\ writes' \in {writes, <<>>})]_vars

\* Two entries, a create for the first and an update for the second, each
\* written while its entry was handled.
C15_Witness ==
    /\ pc = "streaming"
    /\ run = 1
    /\ cursor = 2
    /\ Len(RecordWrites(writes)) = 2
    /\ RecordWrites(writes)[1].op = "create"
    /\ RecordWrites(writes)[1].n = 1
    /\ RecordWrites(writes)[2].op = "update"
    /\ RecordWrites(writes)[2].n = 2

\* C16: the end of the stream emits one final snapshot, of the counters as
\* they are then, and cancels the timer: the timer is armed exactly while
\* the run is streaming, a final snapshot is the last snapshot of a run that
\* is done, and a run that is done has one.
C16_FinalSnapshotAndTimerCancelled ==
    /\ tick = (pc = "streaming")
    /\ \A i \in 1..Len(snapshots) :
          snapshots[i].kind = "end" => (i = Len(snapshots) /\ pc = "done")
    /\ pc = "done" =>
          /\ snapshots # <<>>
          /\ snapshots[Len(snapshots)] =
                [kind |-> "end", mode |-> mode, records |-> recordCounter,
                 serials |-> serialCounter, papers |-> newspaperCounter,
                 stats |-> stats]

\* A run of two entries that is done after two periodic snapshots and the
\* final one.
C16_Witness ==
    /\ pc = "done"
    /\ cursor = 2
    /\ ~tick
    /\ Len(snapshots) = 3
    /\ snapshots[1].kind = "tick"
    /\ snapshots[2].kind = "tick"
    /\ snapshots[2].records = 1
    /\ snapshots[3].kind = "end"

\* The files the handler writes for the entry of the step, told from the
\* entry, the index and what the step does to the store; the mode is no
\* part of it.
WritesWhateverTheMode ==
    LET e == StepEntry
        m == matchedNewspaperId(e, marcNumberToNewspaperId)
        cn == marcControlNumberOf(e)
        Write(op, id) == <<[n |-> cursor', op |-> op, id |-> id, cn |-> cn]>>
    IN  IF CreateStep
        THEN \E id \in DOMAIN store' \ DOMAIN store :
                StepWrites = Write("create", id) \o Write("marc", id)
        ELSE IF MatchStep
        THEN StepWrites =
               (IF SameDates(store[m], store'[m]) THEN <<>> ELSE Write("update", m))
               \o Write("marc", m)
        ELSE /\ store' = store
             /\ StepWrites =
                  (IF isNewspaper(e) /\ m # NoId /\ cn # NoCN
                   THEN Write("marc", m) ELSE <<>>)

\* C17: in each of the four modes the handler of an entry writes the same
\* files: the creates, the updates and the archival copies of a step are
\* those told from the entry, the index and the store alone, and the mode a
\* run was started in stays.
C17_ModeDoesNotGateWrites ==
    [][EntryStep =>
          /\ mode \in Modes
          /\ mode' = mode
          /\ WritesWhateverTheMode]_vars

\* A run in mode "report" that has created a record, updated another and
\* written the archival copy of both entries.
C17_Witness ==
    /\ mode = "report"
    /\ cursor = 2
    /\ writes = <<[n |-> 1, op |-> "create", id |-> 2, cn |-> "B"],
                  [n |-> 1, op |-> "marc", id |-> 2, cn |-> "B"],
                  [n |-> 2, op |-> "update", id |-> 1, cn |-> "A"],
                  [n |-> 2, op |-> "marc", id |-> 1, cn |-> "A"]>>

\* The stored record with the lowest id among those of a place name.
FirstRecordOf(st, name) ==
    st[CHOOSE id \in DOMAIN st :
          /\ st[id].placename = name
          /\ \A other \in DOMAIN st : st[other].placename = name => id <= other]

\* C18: within a run no step changes or removes an entry of the place table;
\* the index build gives a place name the data of the first stored record
\* that has it, and the steps after the index build leave the table alone.
C18_PlaceTableFirstWriteWins ==
    [][run' = run =>
          /\ \A name \in DOMAIN placeData :
                name \in DOMAIN placeData' /\ placeData'[name] = placeData[name]
          /\ pc = "build" =>
                \A name \in DOMAIN placeData' :
                    PlaceTriple(placeData'[name])
                        = PlaceTriple(FirstRecordOf(store, name))
          /\ pc \in {"streaming", "done"} => placeData' = placeData]_vars

\* Records 1 and 2 are of Gore with different place codes; the table has
\* that of record 1, also after an update and the end of the stream.
C18_Witness ==
    /\ pc = "done"
    /\ run = 1
    /\ {1, 2} \subseteq DOMAIN store
    /\ store[1].placename = Gore /\ store[1].placecode = "15-03"
    /\ store[2].placename = Gore /\ store[2].placecode = "15-04"
    /\ buildIdx = 2
    /\ placeData[Gore].placecode = "15-03"
    /\ \E i \in 1..Len(writes) : writes[i].op = "update"

\* The entries counted under the five skip labels, as existing records and
\* as new records.
CountedInCategories ==
    Stat(stats, "count-skipped-no-nz-control-number")
    + Stat(stats, "count-skipped-micoform")
    + Stat(stats, "count-skipped-electronic")
    + Stat(stats, "count-skipped-infrequent")
    + Stat(stats, "count-skipped-placename")
    + Stat(stats, "count-existing-record")
    + Stat(stats, "count-new-record")

\* C21: between two entries the reader has delivered as many entries as
\* recordCounter says, recordCounter >= serialCounter >= newspaperCounter,
\* and newspaperCounter is the sum of the seven category counters.
C21_CountersAddUp ==
    /\ recordCounter = cursor
    /\ recordCounter >= serialCounter
    /\ serialCounter >= newspaperCounter
    /\ newspaperCounter = CountedInCategories

\* A periodical, then a newspaper skipped as microform: two entries, two
\* serials, one newspaper, one entry in the categories.
C21_Witness ==
    /\ pc = "streaming"
    /\ cursor = 2
    /\ recordCounter = 2
    /\ serialCounter = 2
    /\ newspaperCounter = 1
    /\ input[1] = PeriodicalEntry
    /\ Stat(stats, "count-skipped-micoform") = 1
    /\ CountedInCategories = 1

(***************************************************************************)
(* nzn-import-newspapers.js: updateNewspaperRecord, lines 36-85.           *)
(***************************************************************************)

UpperCase == <<"A", "B", "C", "D", "E", "F", "G", "H", "I", "J", "K", "L", "M", "N", "O", "P", "Q", "R", "S", "T", "U", "V", "W", "X", "Y", "Z">>
LowerCase == <<"a", "b", "c", "d", "e", "f", "g", "h", "i", "j", "k", "l", "m", "n", "o", "p", "q", "r", "s", "t", "u", "v", "w", "x", "y", "z">>

\* String.prototype.toLowerCase, character by character.
LowerChar(c) ==
    IF \E i \in 1..Len(UpperCase) : UpperCase[i] = c
    THEN LowerCase[CHOOSE i \in 1..Len(UpperCase) : UpperCase[i] = c]
    ELSE c

\* key.toLowerCase().replaceAll(" ", "-") (line 64).
newKeyOf(key) ==
    [i \in 1..Len(key) |-> IF key[i] = " " THEN "-" ELSE LowerChar(key[i])]

KeyId == <<"I", "d">>
KeyCurrent == <<"C", "u", "r", "r", "e", "n", "t", "?">>
KeyPlacecode == <<"P", "l", "a", "c", "e", "c", "o", "d", "e">>
KeyModifiedAt == <<"M", "o", "d", "i", "f", "i", "e", "d", " ", "A", "t">>
KeyModifiedBy == <<"M", "o", "d", "i", "f", "i", "e", "d", " ", "B", "y">>
KeyTitle == <<"T", "i", "t", "l", "e">>
KeyFirstYear == <<"F", "i", "r", "s", "t", " ", "Y", "e", "a", "r">>
FieldId == <<"i", "d">>
FieldIsCurrent == <<"i", "s", "-", "c", "u", "r", "r", "e", "n", "t">>
FieldNznPlacecode == <<"n", "z", "n", "-", "p", "l", "a", "c", "e", "c", "o", "d", "e">>
FieldRevision == <<"r", "e", "v", "i", "s", "i", "o", "n">>

\* A row is the sequence of its <<column, value>> pairs, in header order.
RowId(row) == row[CHOOSE i \in 1..Len(row) : row[i][1] = KeyId][2]

\* Variant: an empty "Current?" or "Placecode" leaves the stored field.
mergeColumn_SkipsEmpty(newspaper, key, value, id) ==
    IF key = KeyId THEN Put(newspaper, FieldId, id)
    ELSE IF key = KeyModifiedAt \/ key = KeyModifiedBy THEN newspaper
    ELSE IF value = "" THEN newspaper
    ELSE IF key = KeyCurrent THEN Put(newspaper, FieldIsCurrent, value)
    ELSE IF key = KeyPlacecode THEN Put(newspaper, FieldNznPlacecode, value)
    ELSE Put(newspaper, newKeyOf(key), value)

\* Lines 54-67: one column of the row applied to the record.
mergeColumn(newspaper, key, value, id) ==
    IF key = KeyId THEN Put(newspaper, FieldId, id)
    ELSE IF key = KeyCurrent THEN Put(newspaper, FieldIsCurrent, value)
    ELSE IF key = KeyPlacecode THEN Put(newspaper, FieldNznPlacecode, value)
    ELSE IF key = KeyModifiedAt \/ key = KeyModifiedBy THEN newspaper
    ELSE IF value # "" THEN Put(newspaper, newKeyOf(key), value)
    ELSE newspaper

RECURSIVE mergeColumns(_, _, _)
\* Lines 52-68: for (var key in record).
mergeColumns(newspaper, row, id) ==
    IF row = <<>> THEN newspaper
    ELSE mergeColumns(mergeColumn(newspaper, row[1][1], row[1][2], id), Tail(row), id)

\* Lines 70-74.
bumpRevision(newspaper) ==
    IF Has(newspaper, FieldRevision) /\ newspaper[FieldRevision] # 0
    THEN [newspaper EXCEPT ![FieldRevision] = @ + 1]
    ELSE Put(newspaper, FieldRevision, 1)

\* Lines 51-74: the record that is written back for a row.
mergedRecord(newspaper, row) ==
    bumpRevision(mergeColumns(newspaper, row, RowId(row)))

Absent == [kind |-> "absent"]
Truncated == [kind |-> "empty"]
Malformed == [kind |-> "malformed"]
Json(newspaper) == [kind |-> "json", newspaper |-> newspaper]

\* The rows of one batch.
MaxRows == 2

\* Variant: a file that does not parse is taken for no file.
UpdateNewspaperRecord_MalformedAsAbsent(row) ==
    /\ ipc = "loop"
    /\ Len(rows) < MaxRows
    /\ rows' = Append(rows, row)
    /\ LET id == RowId(row)
           file == files[id]
       IN  pending' = Append(pending,
               [id |-> id, stage |-> "queued",
                newspaper |-> mergedRecord(
                    IF file.kind = "json" THEN file.newspaper ELSE <<>>, row)])
    /\ UNCHANGED <<ipc, exitCode, files, files0>>

\* Lines 36-85 for one row of the forEach of line 99. The file is read now;
\* the write is only queued (fs.writeFile is asynchronous). Reading a file
\* that does not parse ends the process with exit code 1, and the writes
\* still queued are lost.
UpdateNewspaperRecord(row) ==
    /\ ipc = "loop"
    /\ Len(rows) < MaxRows
    /\ rows' = Append(rows, row)
    /\ LET id == RowId(row)
           file == files[id]
       IN  IF file.kind \in {"empty", "malformed"}
           THEN /\ ipc' = "exited"
                /\ exitCode' = 1
                /\ pending' = <<>>
           ELSE /\ pending' = Append(pending,
                     [id |-> id, stage |-> "queued",
                      newspaper |-> mergedRecord(
                          IF file.kind = "absent" THEN <<>> ELSE file.newspaper, row)])
                /\ UNCHANGED <<ipc, exitCode>>
    /\ UNCHANGED <<files, files0>>

\* Lines 99-113: the forEach has handled every row; control returns to the
\* event loop.
EndOfRows ==
    /\ ipc = "loop"
    /\ ipc' = "draining"
    /\ UNCHANGED <<files, files0, rows, pending, exitCode>>

\* fs.writeFile, first half: a thread of the pool opens the file for writing,
\* which creates or truncates it. This can happen while the forEach is still
\* running, and in any order among the queued writes.
OpenFile ==
    /\ ipc \in {"loop", "draining"}
    /\ \E i \in 1..Len(pending) :
        /\ pending[i].stage = "queued"
        /\ pending' = [pending EXCEPT ![i].stage = "opened"]
        /\ files' = [files EXCEPT ![pending[i].id] = Truncated]
    /\ UNCHANGED <<ipc, files0, rows, exitCode>>

\* fs.writeFile, second half: the callback of the open runs on the event
\* loop, so after the forEach, and the data is written.
WriteFile ==
    /\ ipc = "draining"
    /\ \E i \in 1..Len(pending) :
        /\ pending[i].stage = "opened"
        /\ files' = [files EXCEPT ![pending[i].id] = Json(pending[i].newspaper)]
        /\ pending' = SubSeq(pending, 1, i - 1) \o SubSeq(pending, i + 1, Len(pending))
    /\ UNCHANGED <<ipc, files0, rows, exitCode>>

\* Nothing is left to do: the process ends.
ProcessEnds ==
    /\ ipc = "draining"
    /\ pending = <<>>
    /\ ipc' = "exited"
    /\ UNCHANGED <<files, files0, rows, pending, exitCode>>

ImportIds == {"1", "2"}

Row(id, title, current) ==
    <<<<KeyId, id>>, <<KeyTitle, title>>, <<KeyCurrent, current>>,
      <<KeyPlacecode, "15-03">>, <<KeyFirstYear, "1970">>,
      <<KeyModifiedAt, "2015-02-01">>>>

ImportRows ==
    {Row(id, title, current) :
        id \in ImportIds, title \in {"", "Sun", "Star"}, current \in {"", "Yes"}}

\* The file of an id before the import: none, a record, or something that is
\* not JSON.
StoredFile(id, revision) ==
    Json((FieldId :> id) @@ (newKeyOf(KeyTitle) :> "Sun")
         @@ (FieldIsCurrent :> "No") @@ (FieldRevision :> revision))

ImportFiles ==
    {f \in [ImportIds -> {Absent, Malformed} \cup
                {StoredFile(id, 1) : id \in ImportIds}] :
        \A id \in ImportIds : f[id].kind = "json" => f[id].newspaper[FieldId] = id}

ImportInit ==
    /\ DatesIdle
    /\ RIdle
    /\ ipc = "loop"
    /\ files \in ImportFiles
    /\ files0 = files
    /\ rows = <<>>
    /\ pending = <<>>
    /\ exitCode = 0

ParseRow == \E row \in ImportRows : UpdateNewspaperRecord(row)

ImportNext ==
    \/ (ParseRow /\ UNCHANGED <<dvars, rvars>>)
    \/ (EndOfRows /\ UNCHANGED <<dvars, rvars>>)
    \/ (OpenFile /\ UNCHANGED <<dvars, rvars>>)
    \/ (WriteFile /\ UNCHANGED <<dvars, rvars>>)
    \/ (ProcessEnds /\ UNCHANGED <<dvars, rvars>>)

SpecImport == ImportInit /\ [][ImportNext]_vars

(***************************************************************************)
(* Properties of the batch import.                                         *)
(***************************************************************************)

\* The rows of the batch that are for one id, in order.
RowsOf(id) == SelectSeq(rows, LAMBDA row : RowId(row) = id)

RECURSIVE RowsApplied(_, _)
\* The record after the rows have been merged into it one after the other.
RowsApplied(newspaper, rs) ==
    IF rs = <<>> THEN newspaper
    ELSE RowsApplied(mergedRecord(newspaper, rs[1]), Tail(rs))

Revision(file) ==
    IF file.kind = "json" /\ Has(file.newspaper, FieldRevision)
    THEN file.newspaper[FieldRevision] ELSE 0

\* C4 (as stated): once the import has ended normally and every write has
\* completed, the stored revision of an id with k rows in the batch is its
\* previous revision plus k, and the stored record holds the fields of all k
\* rows merged in order.
C4_RevisionCountsRows ==
    (ipc = "exited" /\ exitCode = 0) =>
        \A id \in ImportIds :
            Len(RowsOf(id)) >= 1 =>
                /\ files[id].kind = "json"
                /\ Revision(files[id]) = Revision(files0[id]) + Len(RowsOf(id))
                /\ files[id].newspaper =
                     RowsApplied(IF files0[id].kind = "json"
                                 THEN files0[id].newspaper ELSE <<>>,
                                 RowsOf(id))

\* The step is updateNewspaperRecord for a row whose file could be read.
MergeStep ==
    /\ ipc = "loop"
    /\ Len(rows') = Len(rows) + 1
    /\ Len(pending') = Len(pending) + 1

\* The row of the step, the record its file held and the record queued for
\* writing.
StepRow == rows'[Len(rows')]

StepBefore ==
    IF files[RowId(StepRow)].kind = "json"
    THEN files[RowId(StepRow)].newspaper ELSE <<>>

StepAfter == pending'[Len(pending')].newspaper

\* The renaming table of the design; "Modified At" and "Modified By" have no
\* field.
NoField == <<>>

FieldOf(key) ==
    CASE key = KeyId -> <<"i", "d">>
      [] key = KeyCurrent -> <<"i", "s", "-", "c", "u", "r", "r", "e", "n", "t">>
      [] key = KeyPlacecode -> <<"n", "z", "n", "-", "p", "l", "a", "c", "e", "c", "o", "d", "e">>
      [] key = KeyTitle -> <<"t", "i", "t", "l", "e">>
      [] key = KeyFirstYear -> <<"f", "i", "r", "s", "t", "-", "y", "e", "a", "r">>
      [] OTHER -> NoField

\* The fields the row names with a value that is not empty.
NamedFields(row) ==
    {FieldOf(row[i][1]) : i \in {j \in 1..Len(row) : row[j][2] # ""}} \ {NoField}

\* C19 (as stated): the merge stores every non-empty column under the field
\* of the renaming table and leaves the fields the row does not name, or
\* names with an empty value, as they were stored (the revision, counted
\* after the merge, aside).
C19_Original_EmptyValuesKeepFields ==
    [][MergeStep =>
        /\ \A i \in 1..Len(StepRow) :
              (StepRow[i][2] # "" /\ FieldOf(StepRow[i][1]) # NoField) =>
                  /\ FieldOf(StepRow[i][1]) \in DOMAIN StepAfter
                  /\ StepAfter[FieldOf(StepRow[i][1])] = StepRow[i][2]
        /\ \A f \in DOMAIN StepBefore \ (NamedFields(StepRow) \cup {FieldRevision}) :
              f \in DOMAIN StepAfter /\ StepAfter[f] = StepBefore[f]]_vars

\* The fields a row writes: those of "Id", "Current?" and "Placecode"
\* whatever their value, and those of the other columns that are not empty.
WrittenFields(row) ==
    {FieldOf(row[i][1]) :
        i \in {j \in 1..Len(row) :
                  \/ row[j][1] \in {KeyId, KeyCurrent, KeyPlacecode}
                  \/ row[j][2] # ""}} \ {NoField}

\* C19 (amended): the merge stores "Id", "Current?" and "Placecode" under
\* id, is-current and nzn-placecode whatever their value, an empty one
\* included, stores every other non-empty column but "Modified At" and
\* "Modified By" under its lower-kebab-cased name, and leaves every other
\* stored field as it was; the record has no field but these and its
\* revision.
C19_MergeByRenamingTable ==
    [][MergeStep =>
        /\ DOMAIN StepAfter =
              DOMAIN StepBefore \cup WrittenFields(StepRow) \cup {FieldRevision}
        /\ \A i \in 1..Len(StepRow) :
              FieldOf(StepRow[i][1]) \in WrittenFields(StepRow) =>
                  StepAfter[FieldOf(StepRow[i][1])] = StepRow[i][2]
        /\ \A f \in DOMAIN StepBefore \ (WrittenFields(StepRow) \cup {FieldRevision}) :
              StepAfter[f] = StepBefore[f]]_vars

\* A row with an empty "Current?" and an empty "Title" merged into a stored
\* record: is-current is emptied, the title stays.
C19_Witness ==
    /\ ipc = "loop"
    /\ Len(rows) = 1
    /\ Len(pending) = 1
    /\ rows[1] = Row("1", "", "")
    /\ files["1"] = StoredFile("1", 1)
    /\ pending[1].newspaper[FieldIsCurrent] = ""
    /\ pending[1].newspaper[newKeyOf(KeyTitle)] = "Sun"
    /\ newKeyOf(KeyModifiedAt) \notin DOMAIN pending[1].newspaper

\* C20: a file that was malformed when the import began stays as it was, no
\* write is queued for it, and the first row that names its id ends the
\* process with exit code 1.
C20_MalformedFileIsFatal ==
    \A id \in ImportIds :
        files0[id] = Malformed =>
            /\ files[id] = Malformed
            /\ \A i \in 1..Len(pending) : pending[i].id # id
            /\ \A i \in 1..Len(rows) :
                  RowId(rows[i]) = id =>
                      /\ i = Len(rows)
                      /\ ipc = "exited"
                      /\ exitCode = 1

\* The second row of a batch names the id of a malformed file: the process
\* has exited with code 1 and the file is as it was.
C20_Witness ==
    /\ ipc = "exited"
    /\ exitCode = 1
    /\ Len(rows) = 2
    /\ RowId(rows[1]) = "2"
    /\ RowId(rows[2]) = "1"
    /\ files0["1"] = Malformed
    /\ files0["2"] = Absent
    /\ files["1"] = Malformed

(***************************************************************************)
(* The date comparison on its own: one call per pair of tokens.            *)
(***************************************************************************)

DatesInit == DatesIdle /\ RIdle /\ IIdle

CallIsNewDateMoreSpecific ==
    /\ dpc = "idle"
    /\ \E c \in DateTokens, n \in DateTokens :
        /\ currentDate' = c
        /\ newDate' = n
        /\ dresult' = isNewDateMoreSpecific(c, n)
    /\ dpc' = "returned"

ReturnToCaller ==
    /\ dpc = "returned"
    /\ dpc' = "idle"
    /\ currentDate' = Yuuuu
    /\ newDate' = Yuuuu
    /\ dresult' = FALSE

DatesNext ==
    \/ (CallIsNewDateMoreSpecific /\ UNCHANGED <<rvars, ivars>>)
    \/ (ReturnToCaller /\ UNCHANGED <<rvars, ivars>>)

SpecDates == DatesInit /\ [][DatesNext]_vars

(***************************************************************************)
(* Properties of the date comparison.                                      *)
(***************************************************************************)

\* C5: isMoreSpecific(c, n) is false whenever c contains no unknown-marker
\* character (fully specified years and "9999" included).
C5_NoMarkerNeverMoreSpecific ==
    (dpc = "returned" /\ ~HasUnknownMarker(currentDate)) => dresult = FALSE

C5_Witness ==
    /\ dpc = "returned"
    /\ currentDate = Y9999
    /\ newDate = Y1970
    /\ dresult = FALSE

\* C6 (as stated): isMoreSpecific(d, d) is false for every token d.
C6_Original_EqualNeverMoreSpecific ==
    (dpc = "returned" /\ currentDate = newDate) => dresult = FALSE

\* C6 (amended): isMoreSpecific(d, d) is false when d ends in no unknown
\* marker (a full year, "9999") or is "uuuu", and true when d ends in one,
\* two or three unknown markers.
C6_EqualDates ==
    (dpc = "returned" /\ currentDate = newDate) =>
        (dresult = (TrailingUnknown(currentDate) \in 1..3))

C6_Witness ==
    /\ dpc = "returned"
    /\ currentDate = Y19uu
    /\ newDate = Y19uu
    /\ dresult = TRUE

\* The decision table of the design, rules 1 to 6, first match wins.
DecisionTable(c, n) ==
    CASE TrailingUnknown(c) = 0 -> FALSE
      [] n = Yuuuu \/ n = Y9999 -> FALSE
      [] c = Y9999 \/ c = Yuuuu -> TRUE
      [] TrailingUnknown(c) = 3 -> TRUE
      [] TrailingUnknown(c) = 2 -> ~(TrailingUnknown(n) >= 3)
      [] TrailingUnknown(c) = 1 -> ~(TrailingUnknown(n) >= 2)
      [] OTHER -> FALSE

\* C7: the result is that of the six-rule table; for a current with k >= 1
\* trailing markers and a candidate other than "uuuu" and "9999" it is true
\* exactly when the candidate has at most k trailing markers; the five
\* literal cases have the stated results.
C7_DecisionTable ==
    dpc = "returned" =>
        /\ dresult = DecisionTable(currentDate, newDate)
        /\ (TrailingUnknown(currentDate) >= 1 /\ newDate \notin {Yuuuu, Y9999})
              => (dresult = (TrailingUnknown(newDate) <= TrailingUnknown(currentDate)))
        /\ (currentDate = Y19uu /\ newDate = Y1uuu) => dresult = FALSE
        /\ (currentDate = Y197u /\ newDate = Y19uu) => dresult = FALSE
        /\ (currentDate = Y19uu /\ newDate = Y197u) => dresult = TRUE
        /\ (currentDate = Y197u /\ newDate = Y1970) => dresult = TRUE
        /\ (currentDate = Yuuuu /\ newDate = Y1970) => dresult = TRUE

C7_Witness ==
    /\ dpc = "returned"
    /\ currentDate = Y19uu
    /\ newDate = Y1uuu
    /\ dresult = FALSE

====
